---- MODULE Spec2Model ----
(***************************************************************************)
(* A model of server.js: the retrying completion client callGPTWithRetry   *)
(* (getCompletion in the design document) and the POST /chat gateway that  *)
(* calls it behind the per-address rate limiter.                           *)
(*                                                                         *)
(* JavaScript runs every handler to completion between two awaits, so one  *)
(* action of the model is one such run: from the event that resumes the    *)
(* code (a request, the settling of axios.post, the firing of the backoff  *)
(* timer) to the next await or to the end of the handler.                  *)
(***************************************************************************)
EXTENDS Integers, Sequences, FiniteSets, TLC

VARIABLES
    apiKey,       \* process.env.OPENAI_API_KEY
    server,       \* the process: "loading" the module, "exited" or "listening"
    pc,           \* per task: where callGPTWithRetry is suspended or how it ended
    userMessage,  \* per task: the userMessage argument
    retries,      \* per task: the retries argument (maxAttempts)
    delay,        \* per task: the delay variable (currentDelay)
    attempt,      \* per task: the loop variable attempt
    result,       \* per task: what callGPTWithRetry returned or threw
    via,          \* per task: "direct" (called as a function) or "chat" (called by the handler)
    httpResponse, \* per task: the response the gateway sent for the request
    hits,         \* per address: requests counted by chatLimiter in the current window
    request,      \* history: the request the task serves, and whether chatLimiter let it through
    arrival,      \* history: the address of that request and its number in the address's window
    initialDelay, \* history: the delay argument the invocation started with
    calls,        \* history: the upstream calls issued, in order
    waits,        \* history: the backoff waits started, in order (their durations)
    responses,    \* history: what the upstream answered, in order
    sleepers      \* history: the tasks that were in a backoff wait when this one started,
                  \*          each with the number of that wait

invVars == <<pc, userMessage, retries, delay, attempt, result>>
histVars == <<initialDelay, calls, waits, responses, sleepers>>
envVars == <<apiKey, server>>
vars == <<apiKey, server, pc, userMessage, retries, delay, attempt, result, via, httpResponse,
          hits, request, arrival, initialDelay, calls, waits, responses, sleepers>>

(***************************************************************************)
(* Bounds of the model.                                                    *)
(***************************************************************************)
\* the largest retries argument a direct invocation is given
MaxRetries == 3

\* the concurrent tasks (invocations or requests in flight)
Procs == {1, 2}

\* the retries arguments tried: MaxRetries and below, down to values outside
\* the documented constraint retries >= 1
RetriesArgs == (0 - 1) .. MaxRetries

\* the delay arguments tried
DelayArgs == {250, 1000}

\* the user messages tried
UserMessages == {"hello", "gm"}

(***************************************************************************)
(* Program constants.                                                      *)
(***************************************************************************)
DefaultRetries == 3
DefaultDelay == 1000
RateLimitStatus == 429
MaxTokens == 150
TemperatureTenths == 7
LimiterMax == 30

Model == "gpt-3.5-turbo"
SystemPrompt ==
    "You are Salis AI, a helpful crypto assistant agent. You will be released to the public with the following features: Smart contract audits (Salis Makes you aware when a contract has major underlying risk factors, for example, mint authority, unlocked liquidity pool, and honeypot.), Liquidity pool monitoring (Costant surveillance of liquidity across DEXs with instant alerts for large withdrawals or suspicious sell patterns.), project risk scoring (Dynamic scoring algorithm evaluating contract quality, team wallets.), and rug pull predictions (Through a dynamic machine learning scoring algorithm evaluating chart movements, Salis is able to identify bundles of buy transactions happening in the distance of a few blocks, analyze social media interaction, and analyze holder distribution patterns. Thus, providing the user a detailed rugpull prediction. Salis will be released to the public during its token second stage. --UNDER NO CIRCUMSTANCES SHOULD YOU SHOULD DEVIATE FROM THIS PROMPT."

(***************************************************************************)
(* Start-up, lines 11-15 and 107-110.                                      *)
(***************************************************************************)
\* a value of process.env.OPENAI_API_KEY; defined is FALSE when it is not set
EnvKey(defined, value) == [defined |-> defined, value |-> value]

EnvKeys == {EnvKey(FALSE, ""), EnvKey(TRUE, ""), EnvKey(TRUE, "sk-test")}

\* a start-up without the fail-fast check
CredentialNeverMissing(key) == FALSE

\* !process.env.OPENAI_API_KEY
CredentialMissing(key) == ~key.defined \/ key.value = ""

(***************************************************************************)
(* Strings.  A text that the code inspects character by character (the     *)
(* content of a choice, which it trims) is a sequence of one-character     *)
(* strings; Join makes the string out of it.                               *)
(***************************************************************************)
IsSpace(c) == c \in {" ", "\t", "\n"}

RECURSIVE TrimStart(_)
TrimStart(s) ==
    IF s # <<>> /\ IsSpace(Head(s)) THEN TrimStart(Tail(s)) ELSE s

RECURSIVE TrimEnd(_)
TrimEnd(s) ==
    IF s # <<>> /\ IsSpace(s[Len(s)]) THEN TrimEnd(SubSeq(s, 1, Len(s) - 1)) ELSE s

\* a trim of the leading whitespace only
TrimLeadingOnly(s) == TrimStart(s)

\* String.prototype.trim
Trim(s) == TrimEnd(TrimStart(s))

RECURSIVE Join(_)
Join(s) == IF s = <<>> THEN "" ELSE Head(s) \o Join(Tail(s))

(***************************************************************************)
(* What `await axios.post(...)` can yield.                                 *)
(***************************************************************************)
\* a choice of a response body; hasContent is FALSE when message.content is missing
Choice(hasContent, content) == [hasContent |-> hasContent, content |-> content]

Resolved(choices) == [kind |-> "resolved", choices |-> choices]

\* an error object: error.response (with its status) and error.message
Error(hasResponse, status, message) ==
    [hasResponse |-> hasResponse, status |-> status, message |-> message]

Rejected(error) == [kind |-> "rejected", error |-> error]

HttpError(status) ==
    Error(TRUE, status,
          IF status = 429 THEN "Request failed with status code 429"
          ELSE IF status = 500 THEN "Request failed with status code 500"
          ELSE "Request failed with status code 401")

NetworkError == Error(FALSE, 0, "boom")

TypeError == Error(FALSE, 0, "Cannot read properties of undefined")

ExceededError == Error(FALSE, 0, "Exceeded maximum retry attempts")

\* the contents of choices the upstream is given to answer
Contents == { <<"h", "i", " ", "t", "h", "e", "r", "e">>,
              <<" ", "o", " ", "k", "\n">> }

OtherContent == <<"n", "o">>

UpstreamOutcomes ==
    { Resolved(<<Choice(TRUE, c)>>) : c \in Contents }
    \cup { Resolved(<<Choice(TRUE, c), Choice(TRUE, OtherContent)>>) : c \in Contents }
    \cup { Resolved(<<>>), Resolved(<<Choice(FALSE, <<>>)>>) }
    \cup { Rejected(HttpError(RateLimitStatus)), Rejected(HttpError(500)),
           Rejected(NetworkError) }

(***************************************************************************)
(* callGPTWithRetry, lines 42-81.                                          *)
(***************************************************************************)
\* the request body of axios.post
BuildPayload(msg) ==
    [model |-> Model,
     messages |-> << [role |-> "system", content |-> SystemPrompt],
                     [role |-> "user", content |-> msg] >>,
     max_tokens |-> MaxTokens,
     temperature_tenths |-> TemperatureTenths]

\* a loop that runs once more than retries allows
LoopConditionOffByOne(a, r) == a <= r + 1

\* the for loop's condition
LoopCondition(a, r) == a <= r

\* any error that carries a response counted as a rate limit
IsRateLimitedAnyStatus(error) == error.hasResponse

\* error.response && error.response.status === 429
IsRateLimited(error) == error.hasResponse /\ error.status = RateLimitStatus

\* the retry test off by one: attempt <= retries
ShouldRetryOffByOne(error, a, r) == IsRateLimited(error) /\ a <= r

\* the condition of the catch block's if
ShouldRetry(error, a, r) == IsRateLimited(error) /\ a < r

\* a backoff that never grows
NextDelayConstant(d) == d

\* a doubling with a ceiling of two seconds
NextDelayCapped(d) == IF d * 2 > 2000 THEN 2000 ELSE d * 2

\* delay *= 2
NextDelay(d) == d * 2

\* an extraction that tolerates missing parts (choices?.[0]?.message?.content || '')
ExtractReplyLenient(choices) ==
    IF choices = <<>> \/ ~choices[1].hasContent
    THEN [kind |-> "return", value |-> ""]
    ELSE [kind |-> "return", value |-> Join(Trim(choices[1].content))]

\* response.data.choices[0].message.content.trim(), which throws a TypeError
\* when there is no first choice or it has no content
ExtractReply(choices) ==
    IF choices = <<>> \/ ~choices[1].hasContent
    THEN [kind |-> "throw", error |-> TypeError]
    ELSE [kind |-> "return", value |-> Join(Trim(choices[1].content))]

Return(value) == [kind |-> "return", value |-> value]
Throw(error) == [kind |-> "throw", error |-> error]
NoResult == [kind |-> "none"]

\* the body of the try and of the catch for one settled axios.post: the
\* invocation returns, throws, or waits ("backoff")
AttemptOutcome(out, a, r) ==
    LET tried == IF out.kind = "resolved" THEN ExtractReply(out.choices)
                 ELSE Throw(out.error)
    IN  IF tried.kind = "return" THEN tried
        ELSE IF ShouldRetry(tried.error, a, r) THEN [kind |-> "backoff"]
        ELSE tried

(***************************************************************************)
(* Scheduling.  Node runs one piece of code at a time; a task gives the    *)
(* thread up only at an await.                                             *)
(***************************************************************************)
\* a backoff that keeps the thread (a busy wait) instead of awaiting a timer
AwaitPointsBusyWait == {"ATTEMPT"}

\* where callGPTWithRetry is suspended with the thread released: the await
\* of axios.post ("ATTEMPT") and the await of the setTimeout promise ("BACKOFF")
AwaitPoints == {"ATTEMPT", "BACKOFF"}

\* task q holds the thread
Running(q) == pc[q] \notin ({"idle", "DONE", "FAILED"} \cup AwaitPoints)

\* task p can be resumed: no other task holds the thread
CanRun(p) == \A q \in Procs \ {p} : ~Running(q)

\* a promise whose executor never calls res: the wait never ends
TimerNeverResolves(label) == FALSE

\* the timer of setTimeout(res, delay) resolves the promise the task awaits
TimerResolves(label) == label = "BACKOFF"

\* attempt and delay kept in variables of the module, one for all invocations
BindShared(f, p, v) == [q \in DOMAIN f |-> v]

\* attempt and delay are bindings of one invocation (a let of the loop, a
\* parameter): writing one writes the invocation's own
BindLocal(f, p, v) == [f EXCEPT ![p] = v]

\* a loop that goes round without counting the attempt
NextAttemptUncounted(a) == a

\* attempt++
NextAttempt(a) == a + 1

(***************************************************************************)
(* The gateway, lines 26-32 and 84-99.                                     *)
(***************************************************************************)
Addresses == {"a1", "a2"}

\* req.body: hasMessage is FALSE when the body has no message field
Body(hasMessage, message) == [hasMessage |-> hasMessage, message |-> message]

Bodies == {Body(FALSE, ""), Body(TRUE, ""), Body(TRUE, "hello")}

Json(reply) == [type |-> "json", reply |-> reply]
PlainText(text) == [type |-> "text", text |-> text]
Response(status, body) == [status |-> status, body |-> body]
NoResponse == [status |-> 0]

\* a request with its body, and whether chatLimiter passed it on to the handler
Request(body, admitted) == [kind |-> "chat", body |-> body, admitted |-> admitted]
NoRequest == [kind |-> "none"]

\* where a request came from, and the count of its address with it included
Arrival(ip, nth) == [ip |-> ip, nth |-> nth]
NoArrival == [ip |-> "none", nth |-> 0]

\* chatLimiter's answer to a request over the quota
LimiterResponse ==
    Response(429, PlainText("Too many requests from this IP, please try again later."))

\* a limiter that turns away from the 32nd request on
WithinQuotaOffByOne(n) == n <= LimiterMax + 1

\* chatLimiter lets the request through: n is the address's count, this request included
WithinQuota(n) == n <= LimiterMax

\* a test for an absent message only, which lets the empty string through
MessageAbsentOnly(body) == ~body.hasMessage

\* !userMessage, for userMessage = req.body.message
MessageMissing(body) == ~body.hasMessage \/ body.message = ""

ValidationResponse == Response(400, Json("No message provided."))

\* a handler that asks for five attempts
DefaultArgsFive == [retries |-> 5, delay |-> DefaultDelay]

\* callGPTWithRetry(userMessage): retries and delay take their defaults
DefaultArgs == [retries |-> DefaultRetries, delay |-> DefaultDelay]

\* a handler that hides the failure behind a fixed message
HandlerResponseHidesError(res) ==
    IF res.kind = "return"
    THEN Response(200, Json(res.value))
    ELSE Response(500, Json("Internal server error"))

\* a handler that answers before the reply is there
HandlerResponseNoReply(res) ==
    IF res.kind = "return"
    THEN Response(200, Json(""))
    ELSE Response(500, Json("Sorry, something went wrong: " \o res.error.message))

\* what the handler sends once callGPTWithRetry has returned or thrown
HandlerResponse(res) ==
    IF res.kind = "return"
    THEN Response(200, Json(res.value))
    ELSE Response(500, Json("Sorry, something went wrong: " \o res.error.message))

(***************************************************************************)
(* The state and the steps.                                                *)
(***************************************************************************)
Init ==
    /\ apiKey \in EnvKeys
    /\ server = "loading"
    /\ arrival = [p \in Procs |-> NoArrival]
    /\ pc = [p \in Procs |-> "idle"]
    /\ userMessage = [p \in Procs |-> ""]
    /\ retries = [p \in Procs |-> 0]
    /\ delay = [p \in Procs |-> 0]
    /\ attempt = [p \in Procs |-> 0]
    /\ result = [p \in Procs |-> NoResult]
    /\ via = [p \in Procs |-> "none"]
    /\ httpResponse = [p \in Procs |-> NoResponse]
    /\ hits = [a \in Addresses |-> 0]
    /\ request = [p \in Procs |-> NoRequest]
    /\ initialDelay = [p \in Procs |-> 0]
    /\ calls = [p \in Procs |-> <<>>]
    /\ waits = [p \in Procs |-> <<>>]
    /\ responses = [p \in Procs |-> <<>>]
    /\ sleepers = [p \in Procs |-> {}]

\* a messages array built once and pushed to on every attempt
CallAppendsMessage(a, msg) ==
    [attempt |-> a,
     authorization |-> "Bearer " \o apiKey.value,
     payload |-> [BuildPayload(msg) EXCEPT !.messages =
                     @ \o [k \in 1..(a - 1) |-> [role |-> "user", content |-> msg]]]]

\* the call of axios.post at attempt a
Call(a, msg) ==
    [attempt |-> a,
     authorization |-> "Bearer " \o apiKey.value,
     payload |-> BuildPayload(msg)]

\* the module loads: without the credential the process exits, with it the
\* routes are set up and the server listens
Start ==
    /\ server = "loading"
    /\ server' = IF CredentialMissing(apiKey) THEN "exited" ELSE "listening"
    /\ UNCHANGED <<apiKey, invVars, histVars, via, httpResponse, hits, request, arrival>>

\* callGPTWithRetry returns or throws res; when the handler called it, the
\* handler's continuation sends the response
Settle(p, res, v) ==
    /\ result' = [result EXCEPT ![p] = res]
    /\ pc' = [pc EXCEPT ![p] = IF res.kind = "return" THEN "DONE" ELSE "FAILED"]
    /\ httpResponse' = [httpResponse EXCEPT ![p] =
                            IF v = "chat" THEN HandlerResponse(res) ELSE NoResponse]

\* the top of the for loop with attempt = a: issue the call and await it, or
\* fall out of the loop to the final throw
LoopHead(p, a, r, msg, v, issued) ==
    IF LoopCondition(a, r)
    THEN /\ calls' = [calls EXCEPT ![p] = Append(issued, Call(a, msg))]
         /\ pc' = [pc EXCEPT ![p] = "ATTEMPT"]
         /\ result' = [result EXCEPT ![p] = NoResult]
         /\ httpResponse' = [httpResponse EXCEPT ![p] = NoResponse]
    ELSE /\ calls' = [calls EXCEPT ![p] = issued]
         /\ Settle(p, Throw(ExceededError), v)

\* task p enters callGPTWithRetry(msg, r, d) and runs to its first await
Enter(p, msg, r, d, v) ==
    /\ userMessage' = [userMessage EXCEPT ![p] = msg]
    /\ retries' = [retries EXCEPT ![p] = r]
    /\ delay' = BindLocal(delay, p, d)
    /\ attempt' = BindLocal(attempt, p, 1)
    /\ via' = [via EXCEPT ![p] = v]
    /\ initialDelay' = [initialDelay EXCEPT ![p] = d]
    /\ waits' = [waits EXCEPT ![p] = <<>>]
    /\ responses' = [responses EXCEPT ![p] = <<>>]
    /\ sleepers' = [sleepers EXCEPT ![p] =
                        {<<q, Len(waits[q])>> : q \in {o \in Procs \ {p} : pc[o] = "BACKOFF"}}]
    /\ LoopHead(p, 1, r, msg, v, <<>>)

\* a direct call of callGPTWithRetry(msg, r, d)
Invoke(p, msg, r, d) ==
    /\ server = "listening"
    /\ pc[p] = "idle"
    /\ CanRun(p)
    /\ Enter(p, msg, r, d, "direct")
    /\ UNCHANGED <<envVars, hits, request, arrival>>

\* a catch that starts the timer without awaiting it and goes round at once
UpstreamSettlesNoAwait(p, out) ==
    /\ pc[p] = "ATTEMPT"
    /\ CanRun(p)
    /\ responses' = [responses EXCEPT ![p] = Append(@, out)]
    /\ LET res == AttemptOutcome(out, attempt[p], retries[p])
       IN  IF res.kind = "backoff"
           THEN /\ delay' = BindLocal(delay, p, NextDelay(delay[p]))
                /\ attempt' = BindLocal(attempt, p, NextAttempt(attempt[p]))
                /\ LoopHead(p, NextAttempt(attempt[p]), retries[p], userMessage[p],
                            via[p], calls[p])
           ELSE /\ Settle(p, res, via[p])
                /\ UNCHANGED <<delay, attempt, calls>>
    /\ UNCHANGED <<envVars, userMessage, retries, via, hits, request, arrival, initialDelay,
                   waits, sleepers>>

\* axios.post settles with out: the rest of the try, and the catch, run
UpstreamSettles(p, out) ==
    /\ pc[p] = "ATTEMPT"
    /\ CanRun(p)
    /\ responses' = [responses EXCEPT ![p] = Append(@, out)]
    /\ LET res == AttemptOutcome(out, attempt[p], retries[p])
       IN  IF res.kind = "backoff"
           THEN /\ pc' = [pc EXCEPT ![p] = "BACKOFF"]
                /\ waits' = [waits EXCEPT ![p] = Append(@, delay[p])]
                /\ UNCHANGED <<result, httpResponse>>
           ELSE /\ Settle(p, res, via[p])
                /\ UNCHANGED waits
    /\ UNCHANGED <<envVars, userMessage, retries, delay, attempt, via, hits, request,
                   arrival, initialDelay, calls, sleepers>>

\* the backoff timer fires: delay doubles, the loop goes round
TimerFires(p) ==
    /\ TimerResolves(pc[p])
    /\ CanRun(p)
    /\ delay' = BindLocal(delay, p, NextDelay(delay[p]))
    /\ attempt' = BindLocal(attempt, p, NextAttempt(attempt[p]))
    /\ LoopHead(p, NextAttempt(attempt[p]), retries[p], userMessage[p], via[p], calls[p])
    /\ UNCHANGED <<envVars, userMessage, retries, via, hits, request, arrival, initialDelay,
                   waits, responses, sleepers>>

\* a POST /chat from address ip: chatLimiter, then the handler to its first await
ChatRequest(p, ip, body) ==
    /\ server = "listening"
    /\ pc[p] \in {"idle", "DONE", "FAILED"}
    /\ CanRun(p)
    /\ hits[ip] <= LimiterMax
    /\ hits' = [hits EXCEPT ![ip] = @ + 1]
    /\ arrival' = [arrival EXCEPT ![p] = Arrival(ip, hits[ip] + 1)]
    /\ UNCHANGED envVars
    /\ request' = [request EXCEPT ![p] = Request(body, WithinQuota(hits[ip] + 1))]
    /\ IF WithinQuota(hits[ip] + 1) /\ ~MessageMissing(body)
       THEN Enter(p, body.message, DefaultArgs.retries, DefaultArgs.delay, "chat")
       ELSE /\ httpResponse' = [httpResponse EXCEPT ![p] =
                   IF WithinQuota(hits[ip] + 1) THEN ValidationResponse
                   ELSE LimiterResponse]
            /\ pc' = [pc EXCEPT ![p] = "idle"]
            /\ userMessage' = [userMessage EXCEPT ![p] = ""]
            /\ retries' = [retries EXCEPT ![p] = 0]
            /\ delay' = BindLocal(delay, p, 0)
            /\ attempt' = BindLocal(attempt, p, 0)
            /\ result' = [result EXCEPT ![p] = NoResult]
            /\ via' = [via EXCEPT ![p] = "chat"]
            /\ initialDelay' = [initialDelay EXCEPT ![p] = 0]
            /\ calls' = [calls EXCEPT ![p] = <<>>]
            /\ waits' = [waits EXCEPT ![p] = <<>>]
            /\ responses' = [responses EXCEPT ![p] = <<>>]
            /\ sleepers' = [sleepers EXCEPT ![p] = {}]

\* the limiter's window of address ip ends
WindowEnds(ip) ==
    /\ hits[ip] > 0
    /\ hits' = [hits EXCEPT ![ip] = 0]
    /\ UNCHANGED <<envVars, invVars, histVars, via, httpResponse, request, arrival>>

Next ==
    \/ Start
    \/ \E p \in Procs, msg \in UserMessages, r \in RetriesArgs, d \in DelayArgs :
           Invoke(p, msg, r, d)
    \/ \E p \in Procs, out \in UpstreamOutcomes : UpstreamSettles(p, out)
    \/ \E p \in Procs : TimerFires(p)

Spec == Init /\ [][Next]_vars

\* every upstream call settles and every timer fires in the end
Fairness ==
    \A p \in Procs :
        /\ WF_vars(\E out \in UpstreamOutcomes : UpstreamSettles(p, out))
        /\ WF_vars(TimerFires(p))

SpecFair == Spec /\ Fairness

\* two concurrent requests, one per task
NextGateway ==
    \/ Start
    \/ \E p \in Procs, ip \in Addresses, body \in Bodies :
           request[p] = NoRequest /\ ChatRequest(p, ip, body)
    \/ \E p \in Procs, out \in UpstreamOutcomes : UpstreamSettles(p, out)
    \/ \E p \in Procs : TimerFires(p)
    \/ \E ip \in Addresses : WindowEnds(ip)

SpecGateway == Init /\ [][NextGateway]_vars

\* requests one after the other, as many as the quota of an address and more
NextLimiter ==
    \/ Start
    \/ \E ip \in Addresses, body \in Bodies : ChatRequest(1, ip, body)
    \/ \E out \in UpstreamOutcomes : UpstreamSettles(1, out)
    \/ TimerFires(1)
    \/ \E ip \in Addresses : WindowEnds(ip)

SpecLimiter == Init /\ [][NextLimiter]_vars

(***************************************************************************)
(* The claims.                                                             *)
(***************************************************************************)
Min(S) == CHOOSE x \in S : \A y \in S : x <= y
Max(S) == CHOOSE x \in S : \A y \in S : x >= y

RECURSIVE Pow2(_)
Pow2(n) == IF n = 0 THEN 1 ELSE 2 * Pow2(n - 1)

\* n waits that start at d and double
Geometric(d, n) == [k \in 1..n |-> d * Pow2(k - 1)]

\* text c without its leading and trailing whitespace
Trimmed(c) ==
    LET inked == {i \in 1..Len(c) : c[i] \notin {" ", "\t", "\n"}}
    IN  IF inked = {} THEN <<>> ELSE SubSeq(c, Min(inked), Max(inked))

\* the upstream answered with HTTP 429
RateLimitSignal(out) ==
    out.kind = "rejected" /\ out.error.hasResponse /\ out.error.status = 429

\* the upstream call failed, and not with a rate-limit signal
OtherFailure(out) == out.kind = "rejected" /\ ~RateLimitSignal(out)

\* the upstream call succeeded with a first choice that has content
Success(out) ==
    out.kind = "resolved" /\ out.choices # <<>> /\ out.choices[1].hasContent

\* the reply a successful answer carries
ReplyOf(out) == Join(Trimmed(out.choices[1].content))

\* a direct invocation of task p within the documented constraint
Invoked(p) == pc[p] # "idle" /\ via[p] = "direct" /\ retries[p] >= 1

\* the upstream of task p has answered rate-limited every time but possibly
\* the last attempt allowed, where it has succeeded
RateLimitedThenSuccess(p) ==
    \A k \in 1..Len(responses[p]) :
        /\ k < retries[p] => RateLimitSignal(responses[p][k])
        /\ k = retries[p] => Success(responses[p][k])

\* the upstream of task p has answered rate-limited every time
AlwaysRateLimited(p) ==
    \A k \in 1..Len(responses[p]) : RateLimitSignal(responses[p][k])

\* the upstream of task p has succeeded every time
AlwaysSuccess(p) ==
    \A k \in 1..Len(responses[p]) : Success(responses[p][k])

\* C1: in every state of an invocation with maxAttempts >= 1, whatever the
\* upstream answers, at most maxAttempts upstream calls have been issued and
\* every issued call carries an attempt number in 1..maxAttempts.
C1_AttemptsBounded ==
    \A p \in Procs :
        Invoked(p) =>
            /\ Len(calls[p]) <= retries[p]
            /\ \A i \in 1..Len(calls[p]) : calls[p][i].attempt \in 1..retries[p]

\* the last allowed call of an invocation with maxAttempts > 1 is in flight
C1_Witness ==
    \E p \in Procs :
        /\ Invoked(p) /\ pc[p] = "ATTEMPT"
        /\ retries[p] >= 3 /\ Len(calls[p]) = retries[p]

\* C2: with maxAttempts = N >= 1 and an upstream that answers 429 on attempts
\* 1..N-1 and succeeds on attempt N, the invocation is still going while fewer
\* than N answers have arrived, and with the N-th it is DONE with the success
\* value after exactly N calls and N-1 waits, the k-th of initialDelay * 2^(k-1).
C2_RetriesThenSucceeds ==
    \A p \in Procs :
        (Invoked(p) /\ RateLimitedThenSuccess(p)) =>
            LET n == Len(responses[p])
                N == retries[p]
            IN  /\ n < N => pc[p] \in {"ATTEMPT", "BACKOFF"}
                /\ n >= N =>
                      /\ n = N
                      /\ pc[p] = "DONE"
                      /\ result[p] = Return(ReplyOf(responses[p][N]))
                      /\ Len(calls[p]) = N
                      /\ waits[p] = Geometric(initialDelay[p], N - 1)

\* an invocation that succeeded on its third and last attempt
C2_Witness ==
    \E p \in Procs :
        /\ Invoked(p) /\ RateLimitedThenSuccess(p)
        /\ retries[p] = 3 /\ Len(responses[p]) = 3 /\ pc[p] = "DONE"
        /\ waits[p] = <<250, 500>>

\* C3: with maxAttempts = N >= 1 and an upstream that answers 429 every time,
\* the invocation is still going while fewer than N answers have arrived, and
\* with the N-th it is FAILED with that rate-limit failure after exactly N
\* calls and N-1 waits: no wait after the last attempt, no call after the failure.
C3_RateLimitExhausts ==
    \A p \in Procs :
        (Invoked(p) /\ AlwaysRateLimited(p)) =>
            LET n == Len(responses[p])
                N == retries[p]
            IN  /\ n < N => pc[p] \in {"ATTEMPT", "BACKOFF"}
                /\ n >= N =>
                      /\ n = N
                      /\ pc[p] = "FAILED"
                      /\ result[p] = Throw(responses[p][N].error)
                      /\ Len(calls[p]) = N
                      /\ Len(waits[p]) = N - 1

\* an invocation that was rate-limited three times out of three
C3_Witness ==
    \E p \in Procs :
        /\ Invoked(p) /\ AlwaysRateLimited(p)
        /\ retries[p] = 3 /\ Len(responses[p]) = 3 /\ pc[p] = "FAILED"
        /\ result[p].error.status = 429

\* C4: when attempt n fails with a failure that is not a rate-limit signal,
\* the invocation is FAILED with that same failure after exactly n calls: no
\* wait and no call follows it.
C4_OtherFailurePropagates ==
    \A p \in Procs :
        Invoked(p) =>
            \A n \in 1..Len(responses[p]) :
                OtherFailure(responses[p][n]) =>
                    /\ Len(responses[p]) = n
                    /\ pc[p] = "FAILED"
                    /\ result[p] = Throw(responses[p][n].error)
                    /\ Len(calls[p]) = n
                    /\ Len(waits[p]) = n - 1

\* an invocation with attempts to spare whose first attempt failed otherwise,
\* once with an HTTP error and once with no response at all
C4_Witness ==
    /\ \E p \in Procs :
          /\ Invoked(p) /\ retries[p] = 3 /\ Len(responses[p]) = 1
          /\ OtherFailure(responses[p][1]) /\ responses[p][1].error.hasResponse
          /\ pc[p] = "FAILED"
    /\ \E p \in Procs :
          /\ Invoked(p) /\ retries[p] = 3 /\ Len(responses[p]) = 1
          /\ OtherFailure(responses[p][1]) /\ ~responses[p][1].error.hasResponse
          /\ pc[p] = "FAILED"

\* C5: when the upstream call of attempt n succeeds, the invocation is DONE
\* with the trimmed text of the first choice, and no call and no wait follows;
\* with an upstream that always succeeds that is one call and no wait.
C5_SuccessEndsLoop ==
    \A p \in Procs :
        Invoked(p) =>
            /\ \A n \in 1..Len(responses[p]) :
                  Success(responses[p][n]) =>
                      /\ Len(responses[p]) = n
                      /\ pc[p] = "DONE"
                      /\ result[p] = Return(ReplyOf(responses[p][n]))
                      /\ Len(calls[p]) = n
                      /\ Len(waits[p]) = n - 1
            /\ (AlwaysSuccess(p) /\ responses[p] # <<>>) =>
                  Len(calls[p]) = 1 /\ waits[p] = <<>>

\* a first attempt answered with two choices, the first with whitespace around it
C5_Witness ==
    \E p \in Procs :
        /\ Invoked(p) /\ retries[p] = 3 /\ Len(responses[p]) = 1
        /\ Success(responses[p][1]) /\ Len(responses[p][1].choices) = 2
        /\ responses[p][1].choices[1].content = <<" ", "o", " ", "k", "\n">>
        /\ pc[p] = "DONE" /\ result[p] = Return("o k")

\* what an invocation shows that runs alone against an upstream that always
\* succeeds: one call, no wait, attempt and delay as at the start
AloneAlwaysSuccess(p) ==
    /\ attempt[p] = 1 /\ delay[p] = initialDelay[p]
    /\ Len(calls[p]) = 1 /\ waits[p] = <<>>
    /\ IF responses[p] = <<>> THEN pc[p] = "ATTEMPT"
       ELSE /\ Len(responses[p]) = 1 /\ pc[p] = "DONE"
            /\ result[p] = Return(ReplyOf(responses[p][1]))

\* what an invocation shows that runs alone against an upstream that always
\* answers 429, after n answers out of N = retries
AloneAlwaysRateLimited(q) ==
    LET n == Len(responses[q])
        N == retries[q]
        d == initialDelay[q]
    IN  /\ waits[q] = Geometric(d, IF n < N THEN n ELSE N - 1)
        /\ CASE pc[q] = "ATTEMPT" ->
                  n < N /\ attempt[q] = n + 1 /\ Len(calls[q]) = n + 1
                  /\ delay[q] = d * Pow2(n)
             [] pc[q] = "BACKOFF" ->
                  n >= 1 /\ n < N /\ attempt[q] = n /\ Len(calls[q]) = n
                  /\ delay[q] = d * Pow2(n - 1)
             [] pc[q] = "FAILED" ->
                  n = N /\ attempt[q] = N /\ Len(calls[q]) = N
                  /\ delay[q] = d * Pow2(N - 1)
                  /\ result[q] = Throw(responses[q][N].error)
             [] OTHER -> FALSE

C6_AsWhenAlone ==
    \A p, q \in Procs :
        (p # q /\ Invoked(p) /\ Invoked(q)
               /\ AlwaysSuccess(p) /\ AlwaysRateLimited(q)) =>
            AloneAlwaysSuccess(p) /\ AloneAlwaysRateLimited(q)

\* a step in which task p does not move leaves p's attempt and delay alone
C6_OthersUntouched ==
    \A p \in Procs :
        pc'[p] = pc[p] => attempt'[p] = attempt[p] /\ delay'[p] = delay[p]

\* C6: two invocations that run concurrently, one against an upstream that
\* always succeeds and one against an upstream that always answers 429, each
\* show the attempt count, the delays and the outcome of a run alone, and no
\* step of one changes the attempt counter or the delay of the other.
C6_NoStateLeak == []C6_AsWhenAlone /\ [][C6_OthersUntouched]_vars

\* task p started and succeeded while q was in its second wait, and q went on
\* to fail after its third rate-limited attempt
C6_Witness ==
    \E p, q \in Procs :
        /\ p # q /\ Invoked(p) /\ Invoked(q)
        /\ AlwaysSuccess(p) /\ pc[p] = "DONE"
        /\ AlwaysRateLimited(q) /\ pc[q] = "FAILED" /\ retries[q] = 3
        /\ <<q, 2>> \in sleepers[p]

\* C7: while one invocation is suspended in a backoff wait, every step of
\* another task stays enabled: it can be started, its upstream call can
\* settle and take it to DONE or FAILED, and its own timer can fire.
C7_BackoffDoesNotBlock ==
    \A p, q \in Procs :
        (p # q /\ pc[p] = "BACKOFF") =>
            /\ pc[q] = "idle" =>
                  \A msg \in UserMessages, r \in RetriesArgs, d \in DelayArgs :
                      ENABLED Invoke(q, msg, r, d)
            /\ pc[q] = "ATTEMPT" =>
                  \A out \in UpstreamOutcomes : ENABLED UpstreamSettles(q, out)
            /\ pc[q] = "BACKOFF" => ENABLED TimerFires(q)

\* task q started, issued its call and reached DONE, all within one and the
\* same wait of task p
C7_Witness ==
    \E p, q \in Procs :
        /\ p # q /\ pc[p] = "BACKOFF"
        /\ <<p, Len(waits[p])>> \in sleepers[q]
        /\ pc[q] = "DONE" /\ Len(calls[q]) = 1

\* the message of a request body is absent or empty
AbsentOrEmpty(body) == ~body.hasMessage \/ body.message = ""

\* task p serves a request
Serving(p) == request[p].kind = "chat"

\* the last answer of the upstream to task p
LastResponse(p) == responses[p][Len(responses[p])]

\* the request of task p got the validation answer and never reached callGPTWithRetry
RejectedAsInvalid(p) ==
    /\ httpResponse[p] = Response(400, Json("No message provided."))
    /\ pc[p] = "idle" /\ result[p] = NoResult
    /\ calls[p] = <<>>

\* C8 as stated: every POST /chat whose message is absent or empty is
\* answered with status 400 and {reply: "No message provided."}, and no
\* upstream call is issued for it.
C8_AsStated ==
    \A p \in Procs :
        (Serving(p) /\ AbsentOrEmpty(request[p].body)) => RejectedAsInvalid(p)

\* C8 as amended: every POST /chat that the rate limiter lets through and
\* whose message is absent or empty is answered with status 400 and
\* {reply: "No message provided."}, and no upstream call is issued for it.
C8_EmptyMessageRejected ==
    \A p \in Procs :
        (Serving(p) /\ request[p].admitted /\ AbsentOrEmpty(request[p].body)) =>
            RejectedAsInvalid(p)

\* a request within the quota with the empty string as its message, answered 400
C8_Witness ==
    \E p \in Procs :
        /\ Serving(p) /\ request[p].admitted
        /\ request[p].body = Body(TRUE, "")
        /\ httpResponse[p].status = 400

\* C9: whenever callGPTWithRetry ends in FAILED for a request with a
\* non-empty message, the gateway has answered with status 500 and
\* {reply: "Sorry, something went wrong: " + the message of the failure}.
C9_FailureAnswered500 ==
    \A p \in Procs :
        (Serving(p) /\ ~AbsentOrEmpty(request[p].body) /\ pc[p] = "FAILED") =>
            /\ result[p].kind = "throw"
            /\ LastResponse(p).kind = "rejected" => result[p].error = LastResponse(p).error
            /\ httpResponse[p] =
                   Response(500, Json("Sorry, something went wrong: "
                                          \o result[p].error.message))
            /\ LastResponse(p) = Rejected(NetworkError) =>
                   httpResponse[p].body.reply = "Sorry, something went wrong: boom"

\* one request failed on "boom" at its first attempt, another on the 429 of its last
C9_Witness ==
    /\ \E p \in Procs :
          /\ Serving(p) /\ pc[p] = "FAILED" /\ Len(responses[p]) = 1
          /\ LastResponse(p) = Rejected(NetworkError)
          /\ httpResponse[p].status = 500
    /\ \E p \in Procs :
          /\ Serving(p) /\ pc[p] = "FAILED" /\ Len(responses[p]) = 3
          /\ RateLimitSignal(LastResponse(p))
          /\ httpResponse[p].body.reply =
                 "Sorry, something went wrong: Request failed with status code 429"

\* C10: whenever callGPTWithRetry ends in DONE for a request with a non-empty
\* message, the gateway has answered with status 200 and {reply: t}, t the
\* trimmed first-choice text of the upstream answer to that request's last call.
C10_ReplyAnswered200 ==
    \A p \in Procs :
        (Serving(p) /\ ~AbsentOrEmpty(request[p].body) /\ pc[p] = "DONE") =>
            /\ Success(LastResponse(p))
            /\ \A k \in 1..(Len(responses[p]) - 1) : ~Success(responses[p][k])
            /\ httpResponse[p] = Response(200, Json(ReplyOf(LastResponse(p))))

\* two concurrent requests answered with different replies, each with its
\* own, one of them on its second attempt
C10_Witness ==
    \E p, q \in Procs :
        /\ p # q /\ Serving(p) /\ Serving(q)
        /\ pc[p] = "DONE" /\ Len(responses[p]) = 2
        /\ httpResponse[p] = Response(200, Json("hi there"))
        /\ pc[q] = "DONE" /\ httpResponse[q] = Response(200, Json("o k"))

\* task p's invocation has ended
Ended(p) == pc[p] \in {"DONE", "FAILED"}

\* an invocation has an outcome exactly when it has ended: a reply when DONE,
\* a failure when FAILED
C11_OneOutcome ==
    \A p \in Procs :
        Invoked(p) =>
            /\ pc[p] \in {"ATTEMPT", "BACKOFF", "DONE", "FAILED"}
            /\ pc[p] = "DONE" <=> result[p].kind = "return"
            /\ pc[p] = "FAILED" <=> result[p].kind = "throw"

\* an invocation that has ended takes no further step
C11_Terminal ==
    \A p \in Procs :
        (Invoked(p) /\ Ended(p)) =>
            /\ pc'[p] = pc[p] /\ result'[p] = result[p]
            /\ calls'[p] = calls[p] /\ waits'[p] = waits[p]
            /\ responses'[p] = responses[p]
            /\ attempt'[p] = attempt[p] /\ delay'[p] = delay[p]

\* C11: when every upstream call settles and every backoff wait elapses,
\* every invocation with maxAttempts >= 1 ends, in exactly one of DONE (with a
\* reply) and FAILED (with a failure), and once ended it takes no further step.
C11_Terminates ==
    /\ \A p \in Procs : [](Invoked(p) => <>Ended(p))
    /\ []C11_OneOutcome
    /\ [][C11_Terminal]_vars

\* one invocation ended in DONE after a retry, the other in FAILED after three attempts
C11_Witness ==
    \E p, q \in Procs :
        /\ Invoked(p) /\ pc[p] = "DONE" /\ Len(waits[p]) = 1
        /\ Invoked(q) /\ pc[q] = "FAILED" /\ Len(calls[q]) = 3

\* the failure thrown after the loop
Fallback == Throw(Error(FALSE, 0, "Exceeded maximum retry attempts"))

\* C12: for every invocation with maxAttempts >= 1 and every sequence of
\* upstream answers, the "Exceeded maximum retry attempts" failure after the
\* loop is never reached: an invocation that has used its last attempt has
\* returned a reply or thrown the failure of that attempt.
C12_FallbackUnreachable ==
    \A p \in Procs :
        Invoked(p) =>
            /\ result[p] # Fallback
            /\ (Ended(p) /\ Len(calls[p]) = retries[p]) =>
                  \/ /\ result[p].kind = "return"
                     /\ Success(responses[p][retries[p]])
                  \/ /\ result[p].kind = "throw"
                     /\ responses[p][retries[p]].kind = "rejected"
                     /\ result[p].error = responses[p][retries[p]].error
                  \/ /\ result[p].kind = "throw"
                     /\ responses[p][retries[p]].kind = "resolved"
                     /\ ~Success(responses[p][retries[p]])

\* one invocation was rate-limited on its third and last attempt and threw
\* that failure, another returned a reply on its last attempt
C12_Witness ==
    \E p, q \in Procs :
        /\ Invoked(p) /\ retries[p] = 3 /\ Len(calls[p]) = 3 /\ pc[p] = "FAILED"
        /\ RateLimitSignal(responses[p][3])
        /\ Invoked(q) /\ retries[q] = 2 /\ Len(calls[q]) = 2 /\ pc[q] = "DONE"

\* the number of backoff waits of task p that are over
WaitsOver(p) == IF pc[p] = "BACKOFF" THEN Len(waits[p]) - 1 ELSE Len(waits[p])

\* the delay is the initial delay doubled once per wait that is over
C16_DelayIsPower ==
    \A p \in Procs :
        Invoked(p) => delay[p] = initialDelay[p] * Pow2(WaitsOver(p))

\* the delay changes only when a wait ends, and then to exactly its double
C16_OnlyDoubles ==
    \A p \in Procs :
        (Invoked(p) /\ delay'[p] # delay[p]) =>
            /\ pc[p] = "BACKOFF" /\ pc'[p] # "BACKOFF"
            /\ delay'[p] = 2 * delay[p]

\* C16: in every state of an invocation the current delay is
\* initialDelay * 2^w, w the number of backoff waits completed so far; it
\* changes only by exact doubling at the end of a wait, is never reset,
\* capped or jittered, and a success or a propagated failure leaves it alone.
C16_ExactDoubling == []C16_DelayIsPower /\ [][C16_OnlyDoubles]_vars

\* an invocation that ended after two waits with four times its initial delay of 1000
C16_Witness ==
    \E p \in Procs :
        /\ Invoked(p) /\ Ended(p) /\ initialDelay[p] = 1000
        /\ Len(waits[p]) = 2 /\ delay[p] = 4000

\* the upstream call succeeded by its status, but the body has no first
\* choice or the first choice has no content
Malformed(out) == out.kind = "resolved" /\ ~Success(out)

\* C17: an upstream answer with a success status but no first choice, or no
\* content in it, makes the invocation fail at that attempt: FAILED with a
\* failure and not a reply, no wait and no call after it.
C17_MalformedFails ==
    \A p \in Procs :
        Invoked(p) =>
            \A n \in 1..Len(responses[p]) :
                Malformed(responses[p][n]) =>
                    /\ Len(responses[p]) = n
                    /\ pc[p] = "FAILED"
                    /\ result[p].kind = "throw"
                    /\ ~result[p].error.hasResponse
                    /\ Len(calls[p]) = n
                    /\ Len(waits[p]) = n - 1

\* a first attempt answered without choices and another answered with a
\* choice without content, both with attempts to spare
C17_Witness ==
    \E p, q \in Procs :
        /\ Invoked(p) /\ retries[p] = 3 /\ responses[p] = <<Resolved(<<>>)>>
        /\ pc[p] = "FAILED"
        /\ Invoked(q) /\ retries[q] = 3 /\ Len(responses[q]) = 1
        /\ Len(responses[q][1].choices) = 1 /\ Malformed(responses[q][1])
        /\ pc[q] = "FAILED"

\* a direct invocation of task p outside the documented constraint
InvokedWithNone(p) == pc[p] # "idle" /\ via[p] = "direct" /\ retries[p] <= 0

\* C20: an invocation with maxAttempts <= 0 issues no upstream call and no
\* wait and fails with "Exceeded maximum retry attempts", and no invocation
\* with maxAttempts >= 1 fails with that failure.
C20_NoAttemptsFallback ==
    \A p \in Procs :
        /\ InvokedWithNone(p) =>
              /\ pc[p] = "FAILED" /\ result[p] = Fallback
              /\ calls[p] = <<>> /\ waits[p] = <<>> /\ responses[p] = <<>>
        /\ (pc[p] # "idle" /\ via[p] = "direct" /\ result[p] = Fallback) =>
              retries[p] <= 0

\* one invocation with maxAttempts = 0 and one with maxAttempts = -1
C20_Witness ==
    \E p, q \in Procs :
        /\ InvokedWithNone(p) /\ retries[p] = 0 /\ pc[p] = "FAILED"
        /\ InvokedWithNone(q) /\ retries[q] = 0 - 1 /\ pc[q] = "FAILED"

\* the calls, waits and answers of an invocation alternate: call k+1 follows
\* the end of wait k, which follows a 429 at attempt k with k < maxAttempts
C15_Alternation ==
    \A p \in Procs :
        Invoked(p) =>
            /\ \A i \in 1..Len(calls[p]) : calls[p][i].attempt = i
            /\ Len(calls[p]) = WaitsOver(p) + 1
            /\ Len(responses[p]) = IF pc[p] = "ATTEMPT" THEN Len(calls[p]) - 1
                                   ELSE Len(calls[p])
            /\ Len(waits[p]) <= Len(responses[p])
            /\ \A k \in 1..Len(waits[p]) :
                  RateLimitSignal(responses[p][k]) /\ k < retries[p]

\* a call after the first is issued at the end of a wait; a wait is started
\* when a call in flight is answered 429 with attempts left
C15_Steps ==
    \A p \in Procs :
        Invoked(p) =>
            /\ calls'[p] # calls[p] =>
                  /\ pc[p] = "BACKOFF"
                  /\ calls'[p] = Append(calls[p], calls'[p][Len(calls[p]) + 1])
                  /\ waits'[p] = waits[p]
            /\ waits'[p] # waits[p] =>
                  /\ pc[p] = "ATTEMPT" /\ pc'[p] = "BACKOFF"
                  /\ Len(waits'[p]) = Len(waits[p]) + 1
                  /\ RateLimitSignal(responses'[p][Len(responses'[p])])
                  /\ attempt[p] < retries[p]
                  /\ calls'[p] = calls[p]

\* C15: attempt n+1 is issued only after attempt n was answered 429 with
\* n < maxAttempts and exactly one backoff wait has then completed; two
\* attempts are never issued without a wait between them, and no wait is
\* started after a success, another failure or the final attempt.
C15_AttemptWaitAttempt == []C15_Alternation /\ [][C15_Steps]_vars

\* the third call of an invocation in flight, after two waits
C15_Witness ==
    \E p \in Procs :
        /\ Invoked(p) /\ pc[p] = "ATTEMPT" /\ Len(calls[p]) = 3
        /\ Len(waits[p]) = 2 /\ Len(responses[p]) = 2

\* the request body the code sends for user message msg
FixedPayload(msg) ==
    [model |-> "gpt-3.5-turbo",
     messages |-> << [role |-> "system", content |-> SystemPrompt],
                     [role |-> "user", content |-> msg] >>,
     max_tokens |-> 150,
     temperature_tenths |-> 7]

\* every call issued carries the fixed payload with the invocation's message
C18_PayloadFixed ==
    \A p \in Procs :
        Invoked(p) =>
            \A i \in 1..Len(calls[p]) :
                calls[p][i].payload = FixedPayload(userMessage[p])

\* no step of an invocation changes its message, and a retry leaves the
\* calls already issued as they were
C18_MessageKept ==
    \A p \in Procs :
        Invoked(p) =>
            /\ userMessage'[p] = userMessage[p]
            /\ retries'[p] = retries[p]
            /\ SubSeq(calls'[p], 1, Len(calls[p])) = calls[p]

\* C18: every upstream call of one invocation, at every attempt, carries the
\* same payload: the constant system prompt, then the invocation's
\* userMessage, the model "gpt-3.5-turbo", max_tokens 150 and temperature
\* 0.7; retrying changes the attempt counter and the delay, never the payload.
C18_SamePayload == []C18_PayloadFixed /\ [][C18_MessageKept]_vars

\* two invocations with different messages, one at its third call
C18_Witness ==
    \E p, q \in Procs :
        /\ Invoked(p) /\ userMessage[p] = "gm" /\ Len(calls[p]) = 3
        /\ calls[p][3].payload.messages[2].content = "gm"
        /\ Invoked(q) /\ userMessage[q] = "hello" /\ Len(calls[q]) >= 1

(***************************************************************************)
(* C13: the quota of an address.                                           *)
(***************************************************************************)
\* the request of task p got the limiter's answer and never reached the handler
RejectedByLimiter(p) ==
    /\ httpResponse[p] =
           Response(429, PlainText("Too many requests from this IP, please try again later."))
    /\ pc[p] = "idle" /\ result[p] = NoResult
    /\ calls[p] = <<>>

\* the request of task p reached the handler: it got the validation answer, or
\* callGPTWithRetry was entered for it
ReachedHandler(p) ==
    IF AbsentOrEmpty(request[p].body)
    THEN RejectedAsInvalid(p)
    ELSE pc[p] # "idle" /\ calls[p] # <<>>

\* a request reaches the handler exactly when it is among the first 30 of its
\* address in the window, and gets the limiter's answer otherwise
C13_QuotaPerRequest ==
    \A p \in Procs :
        Serving(p) =>
            /\ arrival[p].ip \in Addresses
            /\ arrival[p].nth <= 30 => ReachedHandler(p)
            /\ arrival[p].nth > 30 => RejectedByLimiter(p)

\* a request is numbered by the count of its own address alone, and changes
\* the count of no other address
C13_OwnCountOnly ==
    \A p \in Procs :
        arrival'[p] # arrival[p] =>
            /\ arrival'[p].nth = hits[arrival'[p].ip] + 1
            /\ hits'[arrival'[p].ip] = arrival'[p].nth
            /\ \A other \in Addresses \ {arrival'[p].ip} : hits'[other] = hits[other]

\* C13: of the requests of one address within one window of the limiter, the
\* first 30 reach the chat handler and every further one gets the fixed
\* rate-limit answer with neither the handler nor callGPTWithRetry run, and
\* the count of one address has no effect on the requests of another.
C13_QuotaPerAddress == []C13_QuotaPerRequest /\ [][C13_OwnCountOnly]_vars

\* the 31st request of "a1" is turned away when "a2" has used up its 30, and
\* all of them were let through
C13_Witness ==
    /\ arrival[1] = Arrival("a1", 31)
    /\ httpResponse[1].status = 429
    /\ hits["a2"] = 30

(***************************************************************************)
(* C14: no service without the credential.                                 *)
(***************************************************************************)
\* the credential is configured
Configured == apiKey.defined /\ apiKey.value # ""

\* without the credential the process never listens, handles no request and
\* issues no call; every call carries the credential
C14_NeverServes ==
    /\ ~Configured => server # "listening"
    /\ \A p \in Procs :
          /\ (Serving(p) \/ pc[p] # "idle" \/ httpResponse[p] # NoResponse) => Configured
          /\ \A i \in 1..Len(calls[p]) :
                 Configured /\ calls[p][i].authorization = "Bearer " \o apiKey.value

\* the process exits for good, and the credential is read-only
C14_ExitIsFinal ==
    /\ apiKey' = apiKey
    /\ server = "exited" => server' = "exited"
    /\ (server = "loading" /\ ~Configured) => server' \in {"loading", "exited"}

\* C14: when the upstream credential is absent at start-up the process exits
\* before it listens, so no request is handled and no upstream call is
\* issued without a configured credential.
C14_CredentialRequired == []C14_NeverServes /\ [][C14_ExitIsFinal]_vars

\* the module was loaded without the credential and the process has exited
C14_Witness == ~apiKey.defined /\ server = "exited"

(***************************************************************************)
(* C19: the gateway's invocation.                                          *)
(***************************************************************************)
\* the request of task p reached the handler with a non-empty message
Forwarded(p) == Serving(p) /\ request[p].admitted /\ ~AbsentOrEmpty(request[p].body)

\* s is the start of t
IsPrefix(s, t) == Len(s) <= Len(t) /\ s = SubSeq(t, 1, Len(s))

\* a forwarded request runs with 3 attempts and a first delay of 1000 ms, so
\* at most 3 calls and waits of 1000 then 2000; it is answered exactly when
\* callGPTWithRetry has ended, with the reply or with status 500
C19_DefaultsBound ==
    \A p \in Procs :
        Forwarded(p) =>
            /\ via[p] = "chat"
            /\ retries[p] = 3 /\ initialDelay[p] = 1000
            /\ Len(calls[p]) \in 1..3
            /\ IsPrefix(waits[p], <<1000, 2000>>)
            /\ Ended(p) <=> httpResponse[p] # NoResponse
            /\ pc[p] = "DONE" => httpResponse[p].status = 200
            /\ pc[p] = "FAILED" => httpResponse[p].status = 500

\* the answer of a request is sent once: it never changes afterwards
C19_AnsweredOnce ==
    \A p \in Procs :
        (Serving(p) /\ httpResponse[p] # NoResponse) => httpResponse'[p] = httpResponse[p]

\* C19: every POST /chat that reaches the handler with a non-empty message
\* runs callGPTWithRetry with the defaults retries = 3 and delay = 1000, so it
\* causes at most 3 upstream calls and at most 2 waits, of 1000 ms then
\* 2000 ms, and gets exactly one response, the reply or status 500.
C19_GatewayDefaults == []C19_DefaultsBound /\ [][C19_AnsweredOnce]_vars

\* a request answered 500 after 3 calls and the waits 1000 and 2000, and
\* another answered 200
C19_Witness ==
    /\ \E p \in Procs :
          /\ Forwarded(p) /\ pc[p] = "FAILED"
          /\ Len(calls[p]) = 3 /\ waits[p] = <<1000, 2000>>
          /\ httpResponse[p].status = 500
    /\ \E p \in Procs :
          Forwarded(p) /\ pc[p] = "DONE" /\ httpResponse[p].status = 200

====
